---- MODULE Spec2Model ----
(***************************************************************************)
(* StatelyMachine (Appsweet-co/stately-machine): a finite state machine    *)
(* that validates go(state, context) against a table of transitions and    *)
(* reports every attempt on a success or an error channel.                 *)
(*                                                                         *)
(* The repository holds five versions of the class.  The model carries     *)
(* all of them; `variant` says which one an engine instance runs:          *)
(*   "main_a"   src/src/main.ts lines 1-83                                 *)
(*   "main_b"   src/src/main.ts lines 85-227                               *)
(*   "part_002" src/unnamed/part_002                                       *)
(*   "part_003" src/unnamed/part_003                                       *)
(*   "part_004" src/unnamed/part_004 (validation in a Promise)             *)
(***************************************************************************)
EXTENDS Integers, Sequences, FiniteSets, TLC

VARIABLES
  variant,      \* the version of the class the instance runs
  plan,         \* the observable each subscriber subscribes to
  active,       \* #active (#current, #state)
  context,      \* #context: the object the instance refers to
  transitions,  \* #transitions: the array the instance refers to
  configured,   \* the config of the last transitions() call, as it was when
                \* the call was made
  subs,         \* the subscribers: status, observable, publications and
                \* go() calls before the subscription
  observers,    \* the observers of each Subject, in order of subscription
  prev,         \* part_004: the last [state, context] pair pairwise() holds
  log,          \* what each subscriber's callback was called with, what the
                \* accessors returned inside the callback, the go() call the
                \* event is the outcome of and the place of its publication
  stack,        \* the Subject.next calls in progress
  microtasks,   \* part_004: the promise jobs not run yet
  nGo,          \* go() calls so far
  last,         \* the go() call made in the last step and what #validate
                \* answered (NoCall when the step made none)
  lastPub,      \* the publication made in the last step and the call it
                \* belongs to (NoPub when the step made none)
  nPubOk,       \* publications on the success channel so far
  nPubErr,      \* publications on the error channel so far
  returned      \* the go() calls that returned in the last step, each with
                \* the state accessor read right after

vars == <<variant, plan, active, context, transitions, configured, subs,
          observers, prev, log, stack, microtasks, nGo, last,
          lastPub, nPubOk, nPubErr, returned>>

(***************************************************************************)
(* Bounds of the model.                                                    *)
(***************************************************************************)
MaxGo == 2

(***************************************************************************)
(* Inputs.                                                                 *)
(***************************************************************************)
Variants == {"main_a", "main_b", "part_002", "part_003", "part_004"}
States == {"A", "B", "C"}
ErrorTypes == {"EMPTY_TRANSITIONS", "NO_TRANSITION", "SAME_STATE"}

NoError == "NONE"
NoCtx == << >>
InitialState == "A"
InitialContext == [a |-> 1, b |-> 2]
Partials == {NoCtx, [b |-> 3, c |-> 4]}

Rule(f, t) == [from |-> f, to |-> t]

Configs ==
  { << >>,
    << Rule(<<"A">>, <<"B", "C">>), Rule(<<"B">>, <<"A">>) >>,
    << Rule(<<"B", "B">>, <<"A">>), Rule(<<"C", "A">>, <<"C", "B", "A">>) >> }

(***************************************************************************)
(* Array helpers.                                                          *)
(***************************************************************************)
Includes(list, x) == \E i \in 1..Len(list) : list[i] = x

IndexOf(list, x) ==
  IF Includes(list, x)
  THEN (CHOOSE i \in 1..Len(list) :
          list[i] = x /\ \A j \in 1..(i - 1) : list[j] # x) - 1
  ELSE -1

Truthy(n) == n # 0

(***************************************************************************)
(* #noTransition                                                           *)
(***************************************************************************)
NoTransitionIncludes(tbl, cur, state) ==
  LET sel == SelectSeq(tbl, LAMBDA item : Includes(item.from, cur))
  IN  ~ \E i \in 1..Len(sel) : Includes(sel[i].to, state)

NoTransitionIndexOf(tbl, cur, state) ==
  LET sel == SelectSeq(tbl, LAMBDA item :
                              \E j \in 1..Len(item.from) : item.from[j] = cur)
  IN  ~ \E i \in 1..Len(sel) : Truthy(IndexOf(sel[i].to, state))

NoTransition(v, tbl, cur, state) ==
  IF v = "part_003"
  THEN NoTransitionIndexOf(tbl, cur, state)
  ELSE NoTransitionIncludes(tbl, cur, state)

(***************************************************************************)
(* #validate: the error, or NoError and the state to move to.              *)
(***************************************************************************)
ValidateStrict(v, tbl, cur, state) ==
  IF Len(tbl) = 0 THEN [error |-> "EMPTY_TRANSITIONS", ok |-> state]
  ELSE IF cur = state THEN [error |-> "SAME_STATE", ok |-> state]
  ELSE IF NoTransition(v, tbl, cur, state)
       THEN [error |-> "NO_TRANSITION", ok |-> state]
  ELSE [error |-> NoError, ok |-> state]

ValidateNoEmpty(v, tbl, cur, state) ==
  IF cur = state THEN [error |-> "SAME_STATE", ok |-> state]
  ELSE IF NoTransition(v, tbl, cur, state)
       THEN [error |-> "NO_TRANSITION", ok |-> state]
  ELSE [error |-> NoError, ok |-> state]

Validate(v, tbl, cur, state) ==
  IF v = "part_003"
  THEN ValidateNoEmpty(v, tbl, cur, state)
  ELSE ValidateStrict(v, tbl, cur, state)

(***************************************************************************)
(* { ...context, ...partial }                                              *)
(***************************************************************************)
\* { ...partial, ...context }: the spread order reversed.
MergeOldWins(old, partial) ==
  [k \in (DOMAIN old) \cup (DOMAIN partial) |->
     IF k \in DOMAIN old THEN old[k] ELSE partial[k]]

Merge(old, partial) ==
  [k \in (DOMAIN old) \cup (DOMAIN partial) |->
     IF k \in DOMAIN partial THEN partial[k] ELSE old[k]]

(***************************************************************************)
(* Payloads.                                                               *)
(***************************************************************************)
ErrorEvent(type, from, to) ==
  [kind |-> "error", type |-> type, from |-> from, to |-> to]

SuccessEvent(ctx, from, to) ==
  [kind |-> "success", context |-> ctx, from |-> from, to |-> to]

\* part_002 and part_003 publish the new state itself.
StateEvent(state) == [kind |-> "state", value |-> state]

\* part_004 publishes the state and then the context on two BehaviorSubjects.
ZipEvent(state, ctx) == [kind |-> "zip", state |-> state, context |-> ctx]

\* ./utils of part_004: a pair of consecutive [state, context] pairs as a
\* StatelySuccess.
toSuccess(pair) ==
  SuccessEvent(pair[2][2], pair[1][1], pair[2][1])

HasContext(v) == v \in {"main_a", "main_b", "part_004"}

(***************************************************************************)
(* on$(state) and onError$(type): the filter predicates.                   *)
(***************************************************************************)
\* next === state: the payload itself is compared with the state, so a
\* StatelySuccess object is never equal to it.
PayloadEqualsState(ev, state) == ev.kind = "state" /\ ev.value = state

\* next.to === state
PayloadToEquals(ev, state) == ev.kind = "success" /\ ev.to = state

OnFilter(v, ev, state) ==
  IF v \in {"main_a", "part_002", "part_003"}
  THEN PayloadEqualsState(ev, state)
  ELSE PayloadToEquals(ev, state)

\* next.type === type
OnErrorFilter(ev, type) == ev.type = type

\* onAny$, onAnyError$, on$(state), onError$(type)
OnAny == [chan |-> "change", filt |-> "any"]
OnAnyError == [chan |-> "error", filt |-> "any"]
On(state) == [chan |-> "change", filt |-> state]
OnError(type) == [chan |-> "error", filt |-> type]

\* The subscribers of a run, in the order they may subscribe: one of an
\* unfiltered channel; or two of one unfiltered channel, an unfiltered and a
\* filtered view of one channel (on$('B'), onError$('NO_TRANSITION')), or one
\* of each channel.
SoloPlans == {<<OnAny>>, <<OnAnyError>>}
PairPlans ==
  {<<OnAny, OnAny>>, <<OnAny, OnAnyError>>,
   <<OnAny, On("B")>>, <<OnAnyError, OnError("NO_TRANSITION")>>}
Plans == SoloPlans \cup PairPlans

Subscribers == DOMAIN plan

Passes(v, sub, ev) ==
  \/ sub.filt = "any"
  \/ sub.chan = "change" /\ sub.filt # "any" /\ OnFilter(v, ev, sub.filt)
  \/ sub.chan = "error" /\ sub.filt # "any" /\ OnErrorFilter(ev, sub.filt)

(***************************************************************************)
(* go(state, context), up to the publication.                              *)
(***************************************************************************)
Payload(v, ctx, from, to) ==
  IF HasContext(v) THEN SuccessEvent(ctx, from, to) ELSE StateEvent(to)

\* A go that moves to the requested state also when #validate refuses it.
GoResultFailMoves(v, tbl, cur, ctx, state, partial) ==
  LET r == Validate(v, tbl, cur, state)
      merged == IF HasContext(v) THEN Merge(ctx, partial) ELSE ctx
  IN  IF r.error # NoError
      THEN [error |-> r.error, active |-> state, context |-> ctx,
            chan |-> "error", ev |-> ErrorEvent(r.error, cur, state)]
      ELSE [error |-> NoError, active |-> r.ok, context |-> merged,
            chan |-> "change", ev |-> Payload(v, merged, cur, r.ok)]

GoResult(v, tbl, cur, ctx, state, partial) ==
  LET r == Validate(v, tbl, cur, state)
      merged == IF HasContext(v) THEN Merge(ctx, partial) ELSE ctx
  IN  IF r.error # NoError
      THEN [error |-> r.error, active |-> cur, context |-> ctx,
            chan |-> "error", ev |-> ErrorEvent(r.error, cur, state)]
      ELSE [error |-> NoError, active |-> r.ok, context |-> merged,
            chan |-> "change", ev |-> Payload(v, merged, cur, r.ok)]

(***************************************************************************)
(* The dispatch stack: one frame per Subject.next in progress, holding the *)
(* observers that have not been called yet.  A frame of a synchronous go   *)
(* carries the call, which returns when the frame is done.                 *)
(***************************************************************************)
NoCall == [n |-> 0, target |-> "none", from |-> "none", context |-> NoCtx,
           partial |-> NoCtx, result |-> "none"]
NoPub == [ev |-> [kind |-> "none"], call |-> NoCall]
NoSub == [status |-> "new", chan |-> "none", filt |-> "none", since |-> 0,
          calls |-> 0]
NoPrev == << "none", NoCtx >>

\* `n` is the go() call the event is the outcome of, `seq` the place of the
\* publication among all publications of the instance.  `shared` says that
\* the context of the payload is the object #context refers to.
Frame(ev, rest, call, n, seq, shared) ==
  [ev |-> ev, rest |-> rest, call |-> call, n |-> n, seq |-> seq,
   shared |-> shared]

RECURSIVE Unwind(_)
Unwind(stk) ==
  IF stk = << >> THEN stk
  ELSE IF stk[Len(stk)].rest = << >>
       THEN Unwind(SubSeq(stk, 1, Len(stk) - 1))
       ELSE stk

RECURSIVE ReturnedOf(_, _)
ReturnedOf(stk, st) ==
  IF stk = << >> \/ stk[Len(stk)].rest # << >> THEN {}
  ELSE (IF stk[Len(stk)].call = NoCall THEN {}
        ELSE {[call |-> stk[Len(stk)].call, state |-> st]})
       \cup ReturnedOf(SubSeq(stk, 1, Len(stk) - 1), st)

\* A successful go() puts a new object in #context: the payloads of the
\* publications in progress keep the objects they were made with.
Unshare(stk) == [i \in 1..Len(stk) |-> [stk[i] EXCEPT !.shared = FALSE]]

(***************************************************************************)
(* The context is an object, held by reference.  The constructor keeps the *)
(* caller's object itself, go() puts the object it publishes in its place, *)
(* and the context accessor hands the object out: whoever holds it can     *)
(* write into it (machine.context.a = 0).  The write shows wherever the    *)
(* object is referred to: in #context, in the payloads being delivered     *)
(* that carry it, and in the pairs pairwise() holds (part_004).            *)
(***************************************************************************)
Written(ctx) == [ctx EXCEPT !.a = 0]

WriteFrames(stk) ==
  [i \in 1..Len(stk) |->
     IF stk[i].shared THEN [stk[i] EXCEPT !.ev.context = Written(@)]
     ELSE stk[i]]

\* `pending`: the subscribers the publication in progress has not reached;
\* their pairs still hold the object the publication replaced.
WritePrev(pr, pending) ==
  [id \in DOMAIN pr |->
     IF pr[id] # NoPrev /\ id \notin pending
     THEN <<pr[id][1], Written(pr[id][2])>>
     ELSE pr[id]]

CanWrite == HasContext(variant) /\ context.a # 0

InitWith(variants, plans) ==
  /\ variant \in variants
  /\ plan \in plans
  /\ active = InitialState
  /\ context = IF HasContext(variant) THEN InitialContext ELSE NoCtx
  /\ transitions = << >>
  /\ configured = << >>
  /\ subs = [i \in Subscribers |-> NoSub]
  /\ observers = [change |-> << >>, error |-> << >>]
  /\ prev = [i \in Subscribers |-> NoPrev]
  /\ log = [i \in Subscribers |-> << >>]
  /\ stack = << >>
  /\ microtasks = << >>
  /\ nGo = 0
  /\ last = NoCall
  /\ lastPub = NoPub
  /\ nPubOk = 0
  /\ nPubErr = 0
  /\ returned = {}

Init == InitWith(Variants, Plans)

\* Runs with one subscriber.
InitSolo == InitWith(Variants, SoloPlans)

\* The caller's code (a function, or a job the caller queued) runs whenever
\* no dispatch is in progress: between any two promise jobs of part_004 too.
TopLevel == stack = << >>

(***************************************************************************)
(* transitions(config)                                                     *)
(***************************************************************************)
\* this.#transitions = config, with the table that was there before appended
\* to instead of dropped.
AppendConfig(old, config) == old \o config

\* this.#transitions = config
StoreConfig(old, config) == config

Transitions(config) ==
  /\ TopLevel
  /\ transitions' = StoreConfig(transitions, config)
  /\ configured' = config
  /\ last' = NoCall /\ lastPub' = NoPub /\ returned' = {}
  /\ UNCHANGED <<variant, plan, active, context, subs, observers, prev, log,
                 stack, microtasks, nGo, nPubOk, nPubErr>>

(***************************************************************************)
(* transitions(config) keeps the caller's array itself, not a copy: when   *)
(* the caller later empties that array (config.length = 0), the table of   *)
(* the instance is emptied with it.                                        *)
(***************************************************************************)
CallerEdits ==
  /\ TopLevel
  /\ Len(transitions) > 0
  /\ transitions' = << >>
  /\ last' = NoCall /\ lastPub' = NoPub /\ returned' = {}
  /\ UNCHANGED <<variant, plan, active, context, configured, subs, observers,
                 prev, log, stack, microtasks, nGo, nPubOk, nPubErr>>

\* The caller writes into the context object between two calls.
CallerWrites ==
  /\ TopLevel
  /\ CanWrite
  /\ context' = Written(context)
  /\ prev' = WritePrev(prev, {})
  /\ last' = NoCall /\ lastPub' = NoPub /\ returned' = {}
  /\ UNCHANGED <<variant, plan, active, transitions, configured, subs,
                 observers, log, stack, microtasks, nGo, nPubOk, nPubErr>>

(***************************************************************************)
(* go(state, partial), called with `stk` as the dispatch stack.            *)
(***************************************************************************)
GoCall(state, partial, stk) ==
  LET r == GoResult(variant, transitions, active, context, state, partial)
      call == [n |-> nGo + 1, target |-> state, from |-> active,
               context |-> context, partial |-> partial,
               result |-> IF r.error = NoError THEN "ok" ELSE r.error]
  IN  /\ nGo' = nGo + 1
      /\ last' = call
      /\ IF variant = "part_004"
         THEN \* #validate settles the promise; then/catch run as microtasks
              /\ microtasks' = Append(microtasks,
                   [step |-> IF r.error = NoError THEN "then" ELSE "pass",
                    call |-> call])
              /\ stack' = Unwind(stk)
              /\ returned' = {[call |-> call, state |-> active]}
                               \cup ReturnedOf(stk, active)
              /\ lastPub' = NoPub
              /\ UNCHANGED <<active, context, nPubOk, nPubErr>>
         ELSE LET ok == r.error = NoError
                  stk2 == Append(IF ok THEN Unshare(stk) ELSE stk,
                                 Frame(r.ev, observers[r.chan], call, call.n,
                                       nPubOk + nPubErr + 1,
                                       ok /\ HasContext(variant)))
              IN  /\ active' = r.active
                  /\ context' = r.context
                  /\ lastPub' = [ev |-> r.ev, call |-> call]
                  /\ nPubOk' = IF r.error = NoError THEN nPubOk + 1 ELSE nPubOk
                  /\ nPubErr' = IF r.error = NoError THEN nPubErr ELSE nPubErr + 1
                  /\ stack' = Unwind(stk2)
                  /\ returned' = ReturnedOf(stk2, r.active)
                  /\ UNCHANGED microtasks

Go(state, partial) ==
  /\ TopLevel
  /\ nGo < MaxGo
  /\ HasContext(variant) \/ partial = NoCtx
  /\ GoCall(state, partial, stack)
  /\ UNCHANGED <<variant, plan, transitions, configured, subs, observers,
                 prev, log>>

(***************************************************************************)
(* subscribe / unsubscribe                                                 *)
(***************************************************************************)
Subscribe(id) ==
  /\ TopLevel
  /\ subs[id].status = "new"
  /\ \A j \in Subscribers : j < id => subs[j].status # "new"
  /\ LET kind == plan[id] IN
     /\ subs' = [subs EXCEPT ![id] = [status |-> "on", chan |-> kind.chan,
                                   filt |-> kind.filt,
                                   since |-> nPubOk + nPubErr,
                                   calls |-> nGo]]
     /\ observers' = [observers EXCEPT ![kind.chan] = Append(@, id)]
     \* part_004: zip(#state, #context) takes the current pair on subscription
     /\ prev' = IF variant = "part_004" /\ kind.chan = "change"
                THEN [prev EXCEPT ![id] = <<active, context>>]
                ELSE prev
  /\ last' = NoCall /\ lastPub' = NoPub /\ returned' = {}
  /\ UNCHANGED <<variant, plan, active, context, transitions, configured,
                 log, stack, microtasks, nGo, nPubOk, nPubErr>>

Unsubscribe(id) ==
  /\ TopLevel
  /\ subs[id].status = "on"
  \* the subscriber is gone; the slot is free for a fresh one
  /\ subs' = [subs EXCEPT ![id] = NoSub]
  /\ log' = [log EXCEPT ![id] = << >>]
  /\ prev' = [prev EXCEPT ![id] = NoPrev]
  /\ observers' = [observers EXCEPT ![subs[id].chan] =
                     SelectSeq(@, LAMBDA x : x # id)]
  /\ last' = NoCall /\ lastPub' = NoPub /\ returned' = {}
  /\ UNCHANGED <<variant, plan, active, context, transitions, configured,
                 stack, microtasks, nGo, nPubOk, nPubErr>>

(***************************************************************************)
(* One observer of the Subject.next in progress is called.  Its callback   *)
(* records what it is given (by value) and may then call go() or write     *)
(* into the context object.                                                *)
(***************************************************************************)
Deliver ==
  /\ stack # << >>
  /\ LET top == stack[Len(stack)]
         id == Head(top.rest)
         stk1 == [stack EXCEPT ![Len(stack)].rest = Tail(@)]
         cur == <<top.ev.state, top.ev.context>>
         ev == IF top.ev.kind = "zip" THEN toSuccess(<<prev[id], cur>>)
               ELSE top.ev
         receives == subs[id].status = "on" /\ Passes(variant, subs[id], ev)
         prev1 == IF top.ev.kind = "zip" THEN [prev EXCEPT ![id] = cur]
                  ELSE prev
         pending == {top.rest[i] : i \in 2..Len(top.rest)}
     IN  /\ log' = IF receives
                   THEN [log EXCEPT ![id] = Append(@,
                           [ev |-> ev, state |-> active, context |-> context,
                            n |-> top.n, seq |-> top.seq])]
                   ELSE log
         /\ \/ /\ stack' = Unwind(stk1)
               /\ prev' = prev1
               /\ returned' = ReturnedOf(stk1, active)
               /\ last' = NoCall /\ lastPub' = NoPub
               /\ UNCHANGED <<active, context, microtasks, nGo, nPubOk,
                              nPubErr>>
            \/ /\ receives
               /\ nGo < MaxGo
               /\ prev' = prev1
               /\ \E state \in States : GoCall(state, NoCtx, stk1)
            \/ /\ receives
               /\ CanWrite
               /\ context' = Written(context)
               /\ prev' = WritePrev(prev1, pending)
               /\ stack' = Unwind(WriteFrames(stk1))
               /\ returned' = ReturnedOf(stk1, active)
               /\ last' = NoCall /\ lastPub' = NoPub
               /\ UNCHANGED <<active, microtasks, nGo, nPubOk, nPubErr>>
  /\ UNCHANGED <<variant, plan, transitions, configured, subs, observers>>

(***************************************************************************)
(* part_004: the next job of the microtask queue.                          *)
(***************************************************************************)
RunMicrotask ==
  /\ variant = "part_004"
  /\ stack = << >>
  /\ microtasks # << >>
  /\ LET m == Head(microtasks)
     IN  \/ /\ m.step = "then"
            /\ LET merged == Merge(context, m.call.partial)
                   zev == ZipEvent(m.call.target, merged)
               IN  /\ active' = m.call.target
                   /\ context' = merged
                   /\ lastPub' = [ev |-> zev, call |-> m.call]
                   /\ stack' = Unwind(<<Frame(zev, observers.change, NoCall,
                                             m.call.n, nPubOk + nPubErr + 1,
                                             TRUE)>>)
            /\ nPubOk' = nPubOk + 1
            /\ microtasks' = Tail(microtasks)
            /\ UNCHANGED nPubErr
         \/ /\ m.step = "pass"
            /\ microtasks' = Append(Tail(microtasks),
                                    [step |-> "catch", call |-> m.call])
            /\ lastPub' = NoPub
            /\ UNCHANGED <<active, context, stack, nPubOk, nPubErr>>
         \/ /\ m.step = "catch"
            /\ LET eev == ErrorEvent(m.call.result, active, m.call.target)
               IN  /\ lastPub' = [ev |-> eev, call |-> m.call]
                   /\ stack' = Unwind(<<Frame(eev, observers.error, NoCall,
                                             m.call.n, nPubOk + nPubErr + 1,
                                             FALSE)>>)
            /\ nPubErr' = nPubErr + 1
            /\ microtasks' = Tail(microtasks)
            /\ UNCHANGED <<active, context, nPubOk>>
  /\ last' = NoCall /\ returned' = {}
  /\ UNCHANGED <<variant, plan, transitions, configured, subs, observers,
                 prev, log, nGo>>

\* The methods of the class, the calls and jobs they lead to, and the caller
\* changing the array it passed to transitions() or the context object.
Next ==
  \/ \E config \in Configs : Transitions(config)
  \/ CallerEdits
  \/ CallerWrites
  \/ \E state \in States, partial \in Partials : Go(state, partial)
  \/ \E id \in Subscribers : Subscribe(id)
  \/ \E id \in Subscribers : Unsubscribe(id)
  \/ Deliver
  \/ RunMicrotask

Spec == Init /\ [][Next]_vars

\* Runs with one subscriber.
SpecSolo == InitSolo /\ [][Next]_vars

(***************************************************************************)
(* The worked example: created in state A, configured with                 *)
(* [{from:[A],to:[B,C]},{from:[B],to:[A]}], then go(B), go(B), go(C),      *)
(* go(A), with any subscribers and no go() from a callback.                *)
(***************************************************************************)
ScenarioConfig == << Rule(<<"A">>, <<"B", "C">>), Rule(<<"B">>, <<"A">>) >>
ScenarioCalls == << "B", "B", "C", "A" >>

ScenarioConfigure ==
  /\ nGo = 0
  /\ transitions # ScenarioConfig
  /\ Transitions(ScenarioConfig)

ScenarioGo ==
  /\ TopLevel
  /\ transitions = ScenarioConfig
  /\ nGo < Len(ScenarioCalls)
  /\ GoCall(ScenarioCalls[nGo + 1], NoCtx, stack)
  /\ UNCHANGED <<variant, plan, transitions, configured, subs, observers,
                 prev, log>>

ScenarioSubscribe == nGo = 0 /\ \E id \in Subscribers : Subscribe(id)

\* The callbacks only record what they are given.
ScenarioDeliver == Deliver /\ last' = NoCall /\ context' = context

ScenarioNext ==
  \/ ScenarioConfigure
  \/ ScenarioSubscribe
  \/ ScenarioGo
  \/ ScenarioDeliver
  \/ RunMicrotask

SpecScenario == Init /\ [][ScenarioNext]_vars

(***************************************************************************)
(* The properties of the machine.                                         *)
(***************************************************************************)
\* Some rule has c in its from list and t in its to list.
Permitted(tbl, c, t) ==
  \E i \in 1..Len(tbl) :
    /\ \E j \in 1..Len(tbl[i].from) : tbl[i].from[j] = c
    /\ \E j \in 1..Len(tbl[i].to) : tbl[i].to[j] = t

\* The step made a go() call; #transitions is the table it was validated on.
Called == last # NoCall
Published == lastPub # NoPub
Failed(call) == call.result \in ErrorTypes
Quiet == stack = << >> /\ microtasks = << >>

\* The destination of a success payload.
EventTo(ev) == IF ev.kind = "state" THEN ev.value ELSE ev.to

Events(l) == [i \in 1..Len(l) |-> l[i].ev]

\* C1: with a non-empty table and a target other than the active state, go
\* succeeds exactly when some rule has the active state in its from list and
\* the target in its to list, whatever the order, positions or duplicates.
C1_LookupIsExistence ==
  (Called /\ Len(transitions) > 0 /\ last.target # last.from)
    => (last.result = "ok" <=> Permitted(transitions, last.from, last.target))

\* C2: the outcome of go is decided in strict order: EMPTY_TRANSITIONS on an
\* empty table, else SAME_STATE on the active state, else NO_TRANSITION when no
\* rule connects the two, else success.
C2_StrictOrder ==
  Called =>
    last.result =
      (IF Len(transitions) = 0 THEN "EMPTY_TRANSITIONS"
       ELSE IF last.target = last.from THEN "SAME_STATE"
       ELSE IF ~Permitted(transitions, last.from, last.target)
            THEN "NO_TRANSITION"
       ELSE "ok")

\* C3: on an empty table every go(x) publishes one EMPTY_TRANSITIONS error, no
\* success, and leaves the active state and the context as they were.
C3_EmptyTableFails ==
  /\ (Called /\ Len(transitions) = 0) =>
       /\ last.result = "EMPTY_TRANSITIONS"
       /\ active = last.from
       /\ context = last.context
       /\ variant # "part_004" =>
            lastPub = [ev |-> ErrorEvent("EMPTY_TRANSITIONS", last.from,
                                         last.target),
                       call |-> last]
  /\ (Published /\ lastPub.call.result = "EMPTY_TRANSITIONS") =>
       /\ lastPub.ev.kind = "error"
       /\ lastPub.ev.type = "EMPTY_TRANSITIONS"
  /\ nPubOk + nPubErr + Len(microtasks) = nGo

\* C4: on a non-empty table go(active state) is a SAME_STATE error that changes
\* nothing, and no success publication or success event has from (the active
\* state before the mutation) equal to to.
C4_NoSelfTransition ==
  [][/\ (last' # NoCall /\ Len(transitions) > 0 /\ last'.target = active) =>
          /\ last'.result = "SAME_STATE"
          /\ active' = active
          /\ context' = context
     /\ (lastPub' # NoPub /\ lastPub'.call.result = "ok") =>
          /\ active # lastPub'.call.target
          /\ active' # active
     /\ \A id \in Subscribers : \A i \in 1..Len(log'[id]) :
          log'[id][i].ev.kind = "success" =>
            log'[id][i].ev.from # log'[id][i].ev.to]_vars

\* C5: on a non-empty table, go(s) for s other than the active state with no
\* rule from the active state to s is a NO_TRANSITION error that changes
\* nothing.
C5_NoRuleFails ==
  (/\ Called
   /\ Len(transitions) > 0
   /\ last.target # last.from
   /\ ~Permitted(transitions, last.from, last.target))
    => /\ last.result = "NO_TRANSITION"
       /\ active = last.from
       /\ context = last.context

\* C6: a valid go(target) publishes one success event with from the active
\* state before the call and to the target, no error event, and the state
\* accessor read right after go returns is the target.
C6_SuccessEventAndState ==
  /\ (Published /\ lastPub.call.result = "ok"
        /\ variant \in {"main_a", "main_b"}) =>
       /\ lastPub.ev.kind = "success"
       /\ lastPub.ev.from = lastPub.call.from
       /\ lastPub.ev.to = lastPub.call.target
  /\ \A r \in returned : r.call.result = "ok" => r.state = r.call.target

\* C7: a failed go(target) publishes one error event {kind, from, to} with from
\* the active state the call was validated against and to the target; the
\* active state and the context stay as they were.
C7_ErrorEventOfFailure ==
  /\ (Published /\ Failed(lastPub.call)) =>
       lastPub.ev = ErrorEvent(lastPub.call.result, lastPub.call.from,
                               lastPub.call.target)
  /\ (Called /\ Failed(last)) =>
       active = last.from /\ context = last.context

\* C8: a successful go(target, partial) leaves a context that has partial's
\* value for every key of partial, the old value for every other key, and no
\* key removed; {a:1,b:2} merged with {b:3,c:4} is {a:1,b:3,c:4}.
C8_ShallowMerge ==
  [][(lastPub' # NoPub /\ lastPub'.call.result = "ok" /\ HasContext(variant))
      => LET partial == lastPub'.call.partial
         IN  /\ DOMAIN context' = (DOMAIN context) \cup (DOMAIN partial)
             /\ \A k \in DOMAIN partial : context'[k] = partial[k]
             /\ \A k \in (DOMAIN context) \ (DOMAIN partial) :
                  context'[k] = context[k]
             /\ (context = [a |-> 1, b |-> 2] /\ partial = [b |-> 3, c |-> 4])
                  => context' = [a |-> 1, b |-> 3, c |-> 4]]_vars

C8_Witness ==
  /\ Published
  /\ lastPub.call.result = "ok"
  /\ lastPub.call.partial = [b |-> 3, c |-> 4]
  /\ context = [a |-> 1, b |-> 3, c |-> 4]

\* C9: a success event reaches a subscriber with from the active state before
\* the mutation and the merged context, and the accessors read inside the
\* callback agree with it: state is the event's to, context the event's.
C9_NoTornView ==
  /\ (Published /\ lastPub.ev.kind = "success") =>
       /\ lastPub.ev.from = lastPub.call.from
       /\ lastPub.ev.context = context
  /\ \A id \in Subscribers : \A i \in 1..Len(log[id]) :
       log[id][i].ev.kind = "success" =>
         /\ log[id][i].state = log[id][i].ev.to
         /\ log[id][i].context = log[id][i].ev.context

\* C10: a subscriber of on$(s) receives exactly the events a subscriber of
\* onAny$ registered at the same time receives whose to is s, and a subscriber
\* of onError$(k) exactly those of onAnyError$ whose type is k, in order.
C10_FilteredIsSubsequence ==
  (/\ Quiet
   /\ Len(plan) = 2
   /\ subs[1].status = "on" /\ subs[2].status = "on"
   /\ subs[1].since = subs[2].since
   /\ subs[1].chan = subs[2].chan
   /\ subs[1].filt = "any" /\ subs[2].filt # "any")
    => Events(log[2]) =
         SelectSeq(Events(log[1]),
                   LAMBDA ev : IF subs[2].chan = "change"
                               THEN EventTo(ev) = subs[2].filt
                               ELSE ev.type = subs[2].filt)

\* C11: the worked example gives, in this order, success A->B (state B),
\* SAME_STATE (state B), NO_TRANSITION (state B), success B->A (state A).
ScenarioOutcomes == << "ok", "SAME_STATE", "NO_TRANSITION", "ok" >>
ScenarioFrom == << "A", "B", "B", "B" >>
ScenarioStates == << "B", "B", "B", "A" >>

C11_Scenario ==
  /\ Called =>
       /\ last.result = ScenarioOutcomes[last.n]
       /\ last.from = ScenarioFrom[last.n]
  /\ (Called /\ variant # "part_004") => active = ScenarioStates[last.n]
  /\ Published =>
       /\ lastPub.ev.kind = "error" <=> Failed(lastPub.call)
       /\ lastPub.ev.kind = "error" =>
            lastPub.ev = ErrorEvent(ScenarioOutcomes[lastPub.call.n],
                                    ScenarioFrom[lastPub.call.n],
                                    ScenarioCalls[lastPub.call.n])
  /\ (Quiet /\ nGo > 0) => active = ScenarioStates[nGo]

\* C12: transitions(config) replaces the whole table, leaves the active state
\* and the context as they were and publishes nothing; while the caller leaves
\* the array it passed alone, the outcome of go is the one the config of the
\* last transitions() call gives, whatever was configured before.
C12_TransitionsReplaces ==
  [][/\ configured' # configured =>
          /\ transitions' = configured'
          /\ active' = active
          /\ context' = context
          /\ nPubOk' = nPubOk /\ nPubErr' = nPubErr
          /\ lastPub' = NoPub
          /\ log' = log
          /\ stack' = stack /\ microtasks' = microtasks
     /\ (last' # NoCall /\ transitions = configured) =>
          LET r == Validate(variant, configured, active, last'.target)
          IN  last'.result = (IF r.error = NoError THEN "ok" ELSE r.error)]_vars

\* A go() refused under the second table, which the first one would allow.
C12_Witness ==
  /\ Called
  /\ transitions = ScenarioConfig
  /\ configured = ScenarioConfig
  /\ last.from = "C"
  /\ last.target = "A"
  /\ last.result = "NO_TRANSITION"

\* The two subscribers are one party listening on both channels, registered
\* before the first go().
OnBothFromStart ==
  /\ plan = <<OnAny, OnAnyError>>
  /\ subs[1].status = "on" /\ subs[2].status = "on"
  /\ subs[1].calls = 0 /\ subs[2].calls = 0

\* C13: a subscriber of both channels registered before the first go() has
\* received, after n calls, exactly n events, the i-th received being the
\* outcome (success or error) of the i-th call.
C13_OneEventPerCall ==
  OnBothFromStart =>
    /\ Quiet => Len(log[1]) + Len(log[2]) = nGo
    /\ \A id \in Subscribers : \A i \in 1..Len(log[id]) :
         log[id][i].n = log[id][i].seq

\* C14: when go() returns, its event has been published and every subscriber
\* registered on its channel has been called with it, once; nothing is left
\* to be delivered after go has returned.
C14_SynchronousDispatch ==
  \A r \in returned :
    /\ \A i \in 1..Len(microtasks) : microtasks[i].call.n # r.call.n
    /\ \A i \in 1..Len(stack) : stack[i].n # r.call.n
    /\ LET chan == IF Failed(r.call) THEN "error" ELSE "change"
       IN  \A id \in Subscribers :
             (subs[id].status = "on" /\ subs[id].chan = chan
                /\ subs[id].filt = "any" /\ subs[id].calls < r.call.n)
               => Cardinality({i \in 1..Len(log[id]) :
                                 log[id][i].n = r.call.n}) = 1

\* C15: a subscriber receives only events of go() calls made after it
\* subscribed, and every event published on its channel while it is
\* subscribed.
C15_HotNoReplay ==
  /\ \A id \in Subscribers : \A i \in 1..Len(log[id]) :
       /\ log[id][i].n > subs[id].calls
       /\ log[id][i].seq > subs[id].since
  /\ (/\ Quiet
      /\ plan = <<OnAny, OnAnyError>>
      /\ subs[1].status = "on" /\ subs[2].status = "on"
      /\ subs[1].since = subs[2].since)
       => Len(log[1]) + Len(log[2]) = nPubOk + nPubErr - subs[1].since

\* C16: when a go() call reads the state, every earlier call is complete: no
\* earlier call is still waiting to change the state or to publish, so the
\* call is validated against the state the earlier calls produce.
C16_CallsAreAtomic ==
  Called =>
    /\ \A i \in 1..Len(microtasks) :
         microtasks[i].call.n # last.n => microtasks[i].step # "then"
    /\ \A i \in 1..Len(stack) : stack[i].n # last.n => stack[i].rest = << >>

\* C17: a failed attempt changes nothing but the error channel: the active
\* state, the context and the table stay as they were and nothing is
\* published on the success channel, so the calls that follow are validated
\* as if the failed call had not been made.
C17_FailureIsNoOp ==
  [][((last' # NoCall /\ Failed(last'))
        \/ (lastPub' # NoPub /\ Failed(lastPub'.call)))
      => /\ active' = active
         /\ context' = context
         /\ transitions' = transitions
         /\ nPubOk' = nPubOk
         /\ lastPub' # NoPub => lastPub'.ev.kind = "error"]_vars

\* A refused go() after a successful one, the state and the merged context
\* of the first still in place.
C17_Witness ==
  /\ Called
  /\ Failed(last)
  /\ last.n > 1
  /\ nPubOk > 0
  /\ active = "B"
  /\ context = [a |-> 1, b |-> 3, c |-> 4]

\* The state a publication on the success channel announces.
PublishedTo(ev) ==
  IF ev.kind = "state" THEN ev.value
  ELSE IF ev.kind = "zip" THEN ev.state
  ELSE ev.to

\* C18: the active state is the to of the last published success (the
\* initial state when there is none) and the context is the initial context
\* merged, in order, with the partial contexts of the successful calls: a
\* step that publishes a success moves to its to and merges its partial,
\* every other step leaves both as they were.
C18_StateFollowsSuccesses ==
  [][/\ nPubOk = 0 =>
          /\ active = InitialState
          /\ context = IF HasContext(variant) THEN InitialContext ELSE NoCtx
     /\ IF nPubOk' # nPubOk
        THEN /\ lastPub'.call.result = "ok"
             /\ active' = PublishedTo(lastPub'.ev)
             /\ active' = lastPub'.call.target
             /\ context' = Merge(context, lastPub'.call.partial)
        ELSE /\ active' = active
             /\ context' = context]_vars

\* C19: the table a go() is validated on is the config of the last
\* transitions() call as it was when that call was made; nothing but
\* transitions() changes the table of the instance.
C19_TableOnlyThroughTransitions ==
  /\ transitions = configured
  /\ Called =>
       LET r == Validate(variant, configured, last.from, last.target)
       IN  last.result = (IF r.error = NoError THEN "ok" ELSE r.error)

\* C20: every published success is an edge of the table in force when it is
\* published: the state before differs from the state after, and some rule of
\* the table has the first in its from list and the second in its to list.
C20_SuccessIsAnEdge ==
  [][nPubOk' # nPubOk =>
       /\ active' # active
       /\ Permitted(transitions', active, active')]_vars

\* C21: a subscriber of onAny$ receives the successes in the order they were
\* applied: each is published after the one received before it and starts
\* from the state that one led to, also when a callback calls go().
C21_EventsInOrder ==
  \A id \in Subscribers :
    (subs[id].status = "on" /\ subs[id].chan = "change"
       /\ subs[id].filt = "any")
      => \A i \in 1..(Len(log[id]) - 1) :
           /\ log[id][i].seq < log[id][i + 1].seq
           /\ log[id][i + 1].ev.kind = "success" =>
                log[id][i + 1].ev.from = log[id][i].ev.to

====
